---- MODULE Spec2Model ----
(***************************************************************************)
(* Model of the outbound market-data fetch layer of cryptocopilot:         *)
(* src/lib/binance.ts (the fallback-capable Binance operations, lines      *)
(* 127-412, repeated in src/unnamed/part_000 lines 124-444).               *)
(*                                                                         *)
(* One call of an operation is a small state machine: the primary fetch is *)
(* issued, it settles (a response or a rejection), the code of the try     *)
(* block and of the catch block runs, getCoinGeckoFallback may issue a     *)
(* request to the secondary provider, which settles in turn.  The          *)
(* handlers are operators on a call record, so that the same code runs in  *)
(* the one-call specification Spec and in the two-call specification       *)
(* SpecPair, which runs two calls of getBinanceTicker side by side.  The   *)
(* plain versions of the operations (lines 3-126) run next to the          *)
(* fallback-capable ones in the two-version specification SpecVersions.    *)
(*                                                                         *)
(* The LCX client of src/unnamed/part_000 (lines 1-123) is modelled next   *)
(* to it: one call of getTickers (`bulk`, specification SpecTickers) with  *)
(* its concurrent getTicker requests, and one call of findExactPair        *)
(* (`finder`, specification SpecFinder) on the answer of getPairs.         *)
(***************************************************************************)
EXTENDS Integers, Sequences, FiniteSets, TLC

VARIABLES call, twin, bulk, finder

vars == <<call, twin, bulk, finder>>

(***************************************************************************)
(* Bounds of the model.                                                    *)
(***************************************************************************)
\* numeric fields of a secondary response range over 0..MaxPrice
MaxPrice == 2
\* the retry counts 1..MaxRetryBound a configured retry bound could take
MaxRetryBound == 2
\* getTickers is called with lists of at most MaxPairs pairs
MaxPairs == 3
\* the pairs list of the exchange holds at most MaxListed entries
MaxListed == 3

(***************************************************************************)
(* Strings.                                                                *)
(***************************************************************************)
\* String.prototype.includes
Includes(s, sub) ==
  \E i \in 1..(Len(s) - Len(sub) + 1) : SubSeq(s, i, i + Len(sub) - 1) = sub

UpperAlphabet == "ABCDEFGHIJKLMNOPQRSTUVWXYZ"
LowerAlphabet == "abcdefghijklmnopqrstuvwxyz"

\* one character mapped from the alphabet `from` to the alphabet `to`
MapChar(ch, from, to) ==
  IF \E i \in 1..Len(from) : SubSeq(from, i, i) = ch
    THEN LET i == CHOOSE j \in 1..Len(from) : SubSeq(from, j, j) = ch
         IN SubSeq(to, i, i)
    ELSE ch

RECURSIVE MapString(_, _, _)
MapString(s, from, to) ==
  IF Len(s) = 0 THEN ""
  ELSE MapChar(SubSeq(s, 1, 1), from, to) \o MapString(SubSeq(s, 2, Len(s)), from, to)

\* String.prototype.toLowerCase / toUpperCase
ToLowerCase(s) == MapString(s, UpperAlphabet, LowerAlphabet)
ToUpperCase(s) == MapString(s, LowerAlphabet, UpperAlphabet)

\* the length of the match of /USDT|BUSD|BNB$/i starting at position i, 0 if none
SuffixMatchAt(s, i) ==
  LET four  == IF i + 3 <= Len(s) THEN ToUpperCase(SubSeq(s, i, i + 3)) ELSE ""
      three == IF i + 2 <= Len(s) THEN ToUpperCase(SubSeq(s, i, i + 2)) ELSE ""
  IN IF four = "USDT" THEN 4
     ELSE IF four = "BUSD" THEN 4
     ELSE IF three = "BNB" /\ i + 2 = Len(s) THEN 3
     ELSE 0

\* symbol.replace(/USDT|BUSD|BNB$/i, '').toLowerCase(): the leftmost match is removed
BaseSymbol(symbol) ==
  LET hits == {i \in 1..Len(symbol) : SuffixMatchAt(symbol, i) > 0}
  IN IF hits = {} THEN ToLowerCase(symbol)
     ELSE LET i == CHOOSE j \in hits : \A k \in hits : j <= k
              n == SuffixMatchAt(symbol, i)
          IN ToLowerCase(SubSeq(symbol, 1, i - 1) \o SubSeq(symbol, i + n, Len(symbol)))

(***************************************************************************)
(* Errors.  `from` stands for the identity of the error object: which      *)
(* throw site or which fetch created it.                                   *)
(***************************************************************************)
NoError == [name |-> "none", message |-> "", from |-> "none"]

MkError(name, message, from) == [name |-> name, message |-> message, from |-> from]

\* new Error(`Binance API error: ${response.status} ${response.statusText}`)
BinanceHttpError(status, statusText) ==
  MkError("Error", "Binance API error: " \o ToString(status) \o " " \o statusText, "primary")

\* new Error(`CoinGecko API error: ${response.status} ${response.statusText}`)
CoinGeckoHttpError(status, statusText, from) ==
  MkError("Error", "CoinGecko API error: " \o ToString(status) \o " " \o statusText, from)

\* what fetch() rejects with: a TypeError on a network failure (the message of Node's
\* fetch, and of a browser's), the TimeoutError of AbortSignal.timeout
RejectionErrors ==
  { [cause |-> "network", name |-> "TypeError", message |-> "fetch failed"],
    [cause |-> "network", name |-> "TypeError", message |-> "Failed to fetch"],
    [cause |-> "timeout", name |-> "TimeoutError",
     message |-> "The operation was aborted due to timeout"] }

\* the TypeError of reading property `key` of null
NullReadError(key, from) ==
  MkError("TypeError", "Cannot read properties of null (reading '" \o key \o "')", from)

\* what response.json() throws on a body that is not JSON
JsonSyntaxError(from) ==
  MkError("SyntaxError", "Unexpected token < in JSON at position 0", from)

(***************************************************************************)
(* JSON values.  An object is a function on its keys, an array a function  *)
(* on its indices "0", "1", ...                                            *)
(***************************************************************************)
NoValue == [none |-> TRUE]
EmptyObject == [k \in {} |-> 0]
\* the JSON literal null
JsonNull == [null |-> TRUE]

HasKey(obj, key) == key \in DOMAIN obj

Ops == {"ticker", "orderbook", "trades", "klines", "exchangeInfo"}
SymbolOps == Ops \ {"exchangeInfo"}
Symbols == {"BTCUSDT", "ethbusd", "USDTBNB"}

\* documents the primary provider answers with, per operation
PrimaryDocuments(op, symbol) ==
  CASE op = "ticker" ->
         { [symbol |-> symbol, lastPrice |-> p, volume |-> "12.5"] : p \in {"100.00", "200.00"} }
    [] op = "orderbook" ->
         { [lastUpdateId |-> 7, bids |-> <<<<"99.00", "1.0">>>>, asks |-> <<<<"101.00", "2.0">>>>],
           [lastUpdateId |-> 8, bids |-> <<>>, asks |-> <<>>] }
    [] op = "trades" ->
         { ("0" :> [id |-> 1, price |-> "100.00", qty |-> "1.0", isBuyerMaker |-> TRUE]),
           EmptyObject }
    [] op = "klines" ->
         { ("0" :> <<1700000000, "100.00", "110.00", "90.00", "105.00">>),
           EmptyObject }
    [] op = "exchangeInfo" ->
         { [timezone |-> "UTC",
            symbols |-> <<[symbol |-> "XRPUSDT", baseAsset |-> "XRP",
                           quoteAsset |-> "USDT", status |-> "BREAK"]>>],
           [timezone |-> "UTC", symbols |-> <<>>] }

\* what response.json() of a primary response gives: a document, or null
PrimaryJson(op, symbol) == PrimaryDocuments(op, symbol) \cup {JsonNull}

(***************************************************************************)
(* What a fetch() settles with: a response or a rejection.                 *)
(***************************************************************************)
NoBody == [parses |-> FALSE, json |-> NoValue]
JsonBody(doc) == [parses |-> TRUE, json |-> doc]

NoOutcome ==
  [kind |-> "none", status |-> 0, statusText |-> "", body |-> NoBody,
   error |-> NoError, cause |-> "none"]

Response(status, statusText, body) ==
  [kind |-> "response", status |-> status, statusText |-> statusText, body |-> body,
   error |-> NoError, cause |-> "none"]

Rejection(r, from) ==
  [kind |-> "reject", status |-> 0, statusText |-> "", body |-> NoBody,
   error |-> MkError(r.name, r.message, from), cause |-> r.cause]

\* response.ok
ResponseOk(o) == o.status >= 200 /\ o.status <= 299

\* status lines a provider answers with (the reason phrase is the server's choice)
OkStatusLines == { <<200, "OK">> }
ErrorStatusLines ==
  { <<451, "Unavailable For Legal Reasons">>, <<404, "Not Found">>,
    <<429, "Too Many Requests">>, <<500, "Internal Server Error">>,
    <<502, "Upstream fetch error">> }

PrimaryOutcomes(op, symbol) ==
       { Response(l[1], l[2], JsonBody(doc)) : l \in OkStatusLines, doc \in PrimaryJson(op, symbol) }
  \cup { Response(l[1], l[2], NoBody) : l \in OkStatusLines \cup ErrorStatusLines }
  \cup { Rejection(r, "primary") : r \in RejectionErrors }

\* documents the secondary provider's simple-price endpoint answers with for `id`
SecondaryJson(id) ==
       { (id :> [usd |-> p, usd_24h_change |-> ch, usd_24h_vol |-> v]) :
             p \in 0..MaxPrice, ch \in {-1, 0}, v \in 0..MaxPrice }
  \cup { (id :> [usd |-> p]) : p \in 1..MaxPrice }
  \cup { EmptyObject, JsonNull }

\* the outcomes of the n-th request of a call to the secondary provider
SecondaryOutcomes(symbol, n) ==
  LET from == "fallback" \o ToString(n)
  IN   { Response(l[1], l[2], JsonBody(doc)) :
             l \in OkStatusLines, doc \in SecondaryJson(BaseSymbol(symbol)) }
  \cup { Response(l[1], l[2], NoBody) : l \in OkStatusLines \cup ErrorStatusLines }
  \cup { Rejection(r, from) : r \in RejectionErrors }

(***************************************************************************)
(* One call of an operation.                                               *)
(*   pc                 idle, awaitPrimary, awaitFallback, done            *)
(*   site               the call site of the getCoinGeckoFallback call in  *)
(*                      flight: "try" (the 451 branch) or "catch"          *)
(*   caught             the catch block's `error`                          *)
(*   result             the value returned or the error thrown             *)
(* and, recorded for the properties: the requests sent to each provider,   *)
(* the calls of getCoinGeckoFallback, what the fetches settled with, and   *)
(* the errors thrown, in order, and the ids asked of the secondary         *)
(* provider.  interval and limit are the further arguments of              *)
(* getBinanceKlines.                                                       *)
(***************************************************************************)
NoResult == [kind |-> "none", value |-> NoValue, error |-> NoError]

IdleCall ==
  [op |-> "none", symbol |-> "", pc |-> "idle", site |-> "none", caught |-> NoError,
   result |-> NoResult, primaryRequests |-> 0, secondaryRequests |-> 0,
   fallbackCalls |-> 0, primary |-> NoOutcome, secondary |-> <<>>, thrown |-> <<>>,
   ids |-> <<>>, interval |-> "", limit |-> 0]

\* the operation is called and its primary fetch is issued
IssuePrimaryTwice(c) == [c EXCEPT !.pc = "awaitPrimary", !.primaryRequests = @ + 2]
IssuePrimary(c) == [c EXCEPT !.pc = "awaitPrimary", !.primaryRequests = @ + 1]

Start(op, symbol) == IssuePrimary([IdleCall EXCEPT !.op = op, !.symbol = symbol])

\* the interval and limit arguments of getBinanceKlines; '1d' and 100 are the defaults
Intervals == {"1d", "1h"}
Limits == {100, 5}

StartKlines(symbol, interval, limit) ==
  [Start("klines", symbol) EXCEPT !.interval = interval, !.limit = limit]

\* return data
Return(c, v) ==
  [c EXCEPT !.pc = "done", !.result = [kind |-> "value", value |-> v, error |-> NoError]]

\* throw error (out of the operation)
Throw(c, e) ==
  [c EXCEPT !.pc = "done", !.result = [kind |-> "error", value |-> NoValue, error |-> e]]

\* an error is raised inside the operation (recorded)
Raise(c, e) == [c EXCEPT !.thrown = Append(@, e)]

(***************************************************************************)
(* getCoinGeckoFallback.                                                   *)
(***************************************************************************)
FallbackSource == "CoinGecko (Fallback)"

\* the `type` argument each operation passes to getCoinGeckoFallback
FallbackTypeOwn(op) == op
FallbackType(op) ==
  CASE op = "ticker" -> "ticker"
    [] op = "orderbook" -> "orderbook"
    [] op = "trades" -> "trades"
    [] op = "klines" -> "ticker"

\* data[baseSymbol]?.field || 0
FieldOrMinusOne(data, id, field) ==
  IF HasKey(data, id) /\ HasKey(data[id], field) THEN data[id][field] ELSE -1
FieldOrZero(data, id, field) ==
  IF HasKey(data, id) /\ HasKey(data[id], field) THEN data[id][field] ELSE 0

\* the secondary response reshaped to the primary provider's field names
TransformTicker(symbol, data) ==
  LET id == BaseSymbol(symbol)
  IN [symbol |-> symbol,
      priceChange |-> FieldOrZero(data, id, "usd_24h_change"),
      priceChangePercent |-> FieldOrZero(data, id, "usd_24h_change"),
      weightedAvgPrice |-> FieldOrZero(data, id, "usd"),
      prevClosePrice |-> FieldOrZero(data, id, "usd"),
      lastPrice |-> FieldOrZero(data, id, "usd"),
      volume |-> FieldOrZero(data, id, "usd_24h_vol"),
      quoteVolume |-> FieldOrZero(data, id, "usd_24h_vol"),
      openPrice |-> FieldOrZero(data, id, "usd"),
      highPrice |-> FieldOrZero(data, id, "usd"),
      lowPrice |-> FieldOrZero(data, id, "usd"),
      count |-> 0,
      source |-> FallbackSource]

\* for the other types, the simplified response
StubResponseUntagged(symbol, type) ==
  [symbol |-> symbol, message |-> type \o " data not available via fallback API"]
StubResponse(symbol, type) ==
  [symbol |-> symbol,
   message |-> type \o " data not available via fallback API",
   source |-> FallbackSource]

\* the secondary request of a ticker fallback is issued, with ids=${baseSymbol}
IssueSecondary(c) ==
  [c EXCEPT !.pc = "awaitFallback", !.secondaryRequests = @ + 1,
            !.ids = Append(@, BaseSymbol(c.symbol))]

\* `return await getCoinGeckoFallback(...)`, at either call site, when it returns v
FallbackReturned(c, v) == Return(c, v)

\* getCoinGeckoFallback is called at `site`: up to its first await or its return
CoinGeckoFallbackAlwaysFetches(c, site) ==
  IssueSecondary([c EXCEPT !.site = site, !.fallbackCalls = @ + 1])
CoinGeckoFallbackStart(c, site) ==
  LET c1 == [c EXCEPT !.site = site, !.fallbackCalls = @ + 1]
      type == FallbackType(c.op)
  IN IF type = "ticker"
       THEN IssueSecondary(c1)
       ELSE FallbackReturned(c1, StubResponse(c.symbol, type))

(***************************************************************************)
(* The catch block of getBinanceTicker, getBinanceOrderBook,               *)
(* getBinanceTrades and getBinanceKlines.                                  *)
(***************************************************************************)
\* error instanceof Error && (message.includes('451') || message.includes('fetch'))
IsFallbackError(e) ==
  e.name # "none" /\ (Includes(e.message, "451") \/ Includes(e.message, "fetch"))

CatchBlock(c, e) ==
  LET c1 == [c EXCEPT !.caught = e]
  IN IF IsFallbackError(e)
       THEN CoinGeckoFallbackStart(c1, "catch")
       ELSE Throw(c1, e)

\* the fallback called in the catch block threw: it is logged, then `throw error`
FallbackFailedInCatchThrowsLast(c, e) == Throw(c, e)
FallbackFailedInCatchRetries(c, e) == IssueSecondary(c)
FallbackFailedInCatch(c, e) == Throw(c, c.caught)

\* getCoinGeckoFallback threw e (its own catch block logs and rethrows)
FallbackThrew(c, e) ==
  IF c.site = "try"
    THEN CatchBlock(Raise(c, e), e)
    ELSE FallbackFailedInCatch(Raise(c, e), e)

\* the secondary fetch settled with o: the rest of getCoinGeckoFallback
FallbackSettled(c, o) ==
  LET c1 == [c EXCEPT !.secondary = Append(@, o)]
      from == "fallback" \o ToString(c.secondaryRequests)
  IN IF o.kind = "reject" THEN FallbackThrew(c1, o.error)
     ELSE IF ~ResponseOk(o)
       THEN FallbackThrew(c1, CoinGeckoHttpError(o.status, o.statusText, from))
     ELSE IF ~o.body.parses THEN FallbackThrew(c1, JsonSyntaxError(from))
     \* data[baseSymbol] of a null document
     ELSE IF o.body.json = JsonNull
       THEN FallbackThrew(c1, NullReadError(BaseSymbol(c.symbol), from))
     ELSE FallbackReturned(c1, TransformTicker(c.symbol, o.body.json))

(***************************************************************************)
(* The try block of the four operations that take a symbol.                *)
(***************************************************************************)
LegalBlock == 451

\* return data
ReturnPrimary(c, data) == Return(c, data)

\* the primary fetch settled with o
TryBlock(c, o) ==
  LET c1 == [c EXCEPT !.primary = o]
  IN IF o.kind = "reject" THEN CatchBlock(Raise(c1, o.error), o.error)
     ELSE IF o.status = LegalBlock THEN CoinGeckoFallbackStart(c1, "try")
     ELSE IF ~ResponseOk(o)
       THEN LET e == BinanceHttpError(o.status, o.statusText)
            IN CatchBlock(Raise(c1, e), e)
     ELSE IF ~o.body.parses
       THEN LET e == JsonSyntaxError("primary")
            IN CatchBlock(Raise(c1, e), e)
     ELSE ReturnPrimary(c1, o.body.json)

(***************************************************************************)
(* getBinanceExchangeInfo.                                                 *)
(***************************************************************************)
ExchangeInfoSource == "Fallback (Binance API blocked)"

TradingUsdt(base) ==
  [symbol |-> base \o "USDT", baseAsset |-> base, quoteAsset |-> "USDT", status |-> "TRADING"]

\* the list returned by the status-451 branch
StaticExchangeInfoBlocked ==
  [symbols |-> << TradingUsdt("BTC"), TradingUsdt("ETH"), TradingUsdt("BNB"),
                  TradingUsdt("ADA"), TradingUsdt("SOL"), TradingUsdt("DOT"),
                  TradingUsdt("MATIC"), TradingUsdt("LINK"), TradingUsdt("UNI"),
                  TradingUsdt("AVAX") >>,
   source |-> ExchangeInfoSource]

\* the list returned by the catch block
StaticExchangeInfoCaught ==
  [symbols |-> << TradingUsdt("BTC"), TradingUsdt("ETH"), TradingUsdt("BNB"),
                  TradingUsdt("ADA"), TradingUsdt("SOL"), TradingUsdt("DOT"),
                  TradingUsdt("MATIC"), TradingUsdt("LINK"), TradingUsdt("UNI"),
                  TradingUsdt("AVAX") >>,
   source |-> ExchangeInfoSource]

ExchangeInfoCatchAlwaysStatic(c, e) == Return([c EXCEPT !.caught = e], StaticExchangeInfoCaught)
ExchangeInfoCatch(c, e) ==
  LET c1 == [c EXCEPT !.caught = e]
  IN IF IsFallbackError(e)
       THEN Return(c1, StaticExchangeInfoCaught)
       ELSE Throw(c1, e)

\* the primary fetch settled with o
ExchangeInfoTry(c, o) ==
  LET c1 == [c EXCEPT !.primary = o]
  IN IF o.kind = "reject" THEN ExchangeInfoCatch(Raise(c1, o.error), o.error)
     ELSE IF o.status = LegalBlock THEN Return(c1, StaticExchangeInfoBlocked)
     ELSE IF ~ResponseOk(o)
       THEN LET e == BinanceHttpError(o.status, o.statusText)
            IN ExchangeInfoCatch(Raise(c1, e), e)
     ELSE IF ~o.body.parses
       THEN LET e == JsonSyntaxError("primary")
            IN ExchangeInfoCatch(Raise(c1, e), e)
     \* the success log reads data.symbols?.length
     ELSE IF o.body.json = JsonNull
       THEN LET e == NullReadError("symbols", "primary")
            IN ExchangeInfoCatch(Raise(c1, e), e)
     ELSE ReturnPrimary(c1, o.body.json)

(***************************************************************************)
(* The plain versions of the five operations (src/lib/binance.ts lines     *)
(* 3-126): one fetch, no fallback.                                         *)
(***************************************************************************)
\* the catch block of a plain version: the error is logged, then `throw error`
PlainCatch(c, e) == Throw(c, e)

\* the plain version of the operation is called and its fetch is issued
PlainStart(op, symbol) == IssuePrimary([IdleCall EXCEPT !.op = op, !.symbol = symbol])

\* the fetch of a plain version settled with o
PlainTry(c, o) ==
  LET c1 == [c EXCEPT !.primary = o]
  IN IF o.kind = "reject" THEN PlainCatch(Raise(c1, o.error), o.error)
     ELSE IF ~ResponseOk(o)
       THEN LET e == BinanceHttpError(o.status, o.statusText)
            IN PlainCatch(Raise(c1, e), e)
     ELSE IF ~o.body.parses
       THEN LET e == JsonSyntaxError("primary")
            IN PlainCatch(Raise(c1, e), e)
     \* the success log of getBinanceExchangeInfo reads data.symbols?.length
     ELSE IF c.op = "exchangeInfo" /\ o.body.json = JsonNull
       THEN LET e == NullReadError("symbols", "primary")
            IN PlainCatch(Raise(c1, e), e)
     ELSE Return(c1, o.body.json)

(***************************************************************************)
(* LCX: getTicker and getTickers.                                          *)
(*                                                                         *)
(* One call of getTickers:                                                 *)
(*   pc         idle, awaitAll (at `await Promise.all`), done              *)
(*   pairs      the argument                                               *)
(*   promises   per position of `pairs`, the promise pairs.map made: its   *)
(*              entry once it is fulfilled                                 *)
(*   result     the value returned or the error thrown                     *)
(* and, recorded for the properties: per position the number of ticker     *)
(* requests sent and what the request settled with, and the positions in   *)
(* the order in which their requests settled.                              *)
(***************************************************************************)
PairNames == {"BTC/USDC", "NOPE/XYZ"}

PairLists == UNION { [1..n -> PairNames] : n \in 0..MaxPairs }

\* res.data of GET /api/ticker?pair=...
TickerData(pair) ==
  { [status |-> "success", data |-> [pair |-> pair, lastPrice |-> p]] : p \in {1, 2} }

\* what axios.get rejects with
AxiosErrors ==
  { MkError("AxiosError", "Request failed with status code 400", "lcx"),
    MkError("AxiosError", "Network Error", "lcx") }

LcxPending == [kind |-> "pending", data |-> NoValue, error |-> NoError]
LcxResolved(data) == [kind |-> "resolve", data |-> data, error |-> NoError]
LcxRejected(e) == [kind |-> "reject", data |-> NoValue, error |-> e]

TickerOutcomes(pair) ==
  { LcxResolved(d) : d \in TickerData(pair) } \cup { LcxRejected(e) : e \in AxiosErrors }

PendingEntry == [pending |-> TRUE]

IdleBulk ==
  [pc |-> "idle", pairs |-> <<>>, promises |-> <<>>, result |-> NoResult,
   requests |-> <<>>, outcomes |-> <<>>, order |-> <<>>]

\* pairs.map(async (pair) => ...): each callback runs up to its await, and so sends
\* its getTicker request, before map returns
MapPairsFirstOnly(pairs) == [i \in 1..Len(pairs) |-> IF i = 1 THEN 1 ELSE 0]
MapPairs(pairs) == [i \in 1..Len(pairs) |-> 1]

\* getTickers(pairs), up to `await Promise.all(tickerPromises)`
GetTickersStart(pairs) ==
  [IdleBulk EXCEPT !.pc = "awaitAll", !.pairs = pairs,
                   !.requests = MapPairs(pairs),
                   !.promises = [i \in 1..Len(pairs) |-> PendingEntry],
                   !.outcomes = [i \in 1..Len(pairs) |-> LcxPending]]

\* error instanceof Error ? error.message : 'Unknown error'
ErrorMessageUnknown(e) == "Unknown error"
ErrorMessage(e) == IF e.name = "none" THEN "Unknown error" ELSE e.message

\* the value of one callback of pairs.map, its getTicker having settled with o
TickerEntry(pair, o) ==
  IF o.kind = "resolve"
    THEN [pair |-> pair, success |-> TRUE, data |-> o.data]
    ELSE [pair |-> pair, success |-> FALSE, error |-> ErrorMessage(o.error)]

\* the request of position i settled with o: the rest of its callback
TickerSettled(b, i, o) ==
  [b EXCEPT !.promises[i] = TickerEntry(b.pairs[i], o),
            !.outcomes[i] = o,
            !.order = Append(@, i)]

IsSuccessful(result) == result.success
KeepsEveryResult(result) == TRUE
IsFailed(result) == ~result.success

LcxSource == "LCX Exchange API"

\* the rest of getTickers, Promise.all having resolved with `results`
TickersResponse(results) ==
  LET successful == SelectSeq(results, IsSuccessful)
      failed == SelectSeq(results, IsFailed)
  IN [success |-> TRUE,
      data |-> [successful |-> successful,
                failed |-> failed,
                total |-> Len(results),
                successfulCount |-> Len(successful),
                failedCount |-> Len(failed)],
      source |-> LcxSource]

AllSettled(b) == \A i \in 1..Len(b.promises) : b.promises[i] # PendingEntry

GetTickersResumeInSettleOrder(b) ==
  [b EXCEPT !.pc = "done",
            !.result = [kind |-> "value",
                        value |-> TickersResponse([k \in 1..Len(b.order) |->
                                                     b.promises[b.order[k]]]),
                        error |-> NoError]]
GetTickersResume(b) ==
  [b EXCEPT !.pc = "done",
            !.result = [kind |-> "value", value |-> TickersResponse(b.promises),
                        error |-> NoError]]

(***************************************************************************)
(* LCX: getPairs and findExactPair.                                        *)
(*                                                                         *)
(* One call of findExactPair:                                              *)
(*   pc         idle, awaitPairs (at `await getPairs()`), done             *)
(*   userInput  the argument                                               *)
(*   result     kind "symbol" (the string returned, in `value`), "null"    *)
(*              (null returned) or "error" (an exception left the call)    *)
(* and, recorded for the properties: what the pairs request settled with   *)
(* and the exceptions raised inside the call.                              *)
(***************************************************************************)
\* the characters /\s/ matches
IsWhitespace(ch) == ch \in {" ", "\t", "\n"}

\* s.replace(/\s+/g, ''), from position i on
RECURSIVE StripFrom(_, _)
StripFrom(s, i) ==
  IF i > Len(s) THEN ""
  ELSE (IF IsWhitespace(SubSeq(s, i, i)) THEN "" ELSE SubSeq(s, i, i)) \o StripFrom(s, i + 1)

StripWhitespace(s) == StripFrom(s, 1)

\* s.replace(sub, by) with a string pattern: the first occurrence only
ReplaceFirst(s, sub, by) ==
  IF ~Includes(s, sub) THEN s
  ELSE LET at == {i \in 1..(Len(s) - Len(sub) + 1) : SubSeq(s, i, i + Len(sub) - 1) = sub}
           i == CHOOSE j \in at : \A k \in at : j <= k
       IN SubSeq(s, 1, i - 1) \o by \o SubSeq(s, i + Len(sub), Len(s))

ListedSymbols == {"BTC/USDT", "BTCUSDT", "BTC/USD", "ETH/BTC"}

\* the entries of res.data.data; the last one has no Symbol
PairEntries == { [Symbol |-> sym] : sym \in ListedSymbols } \cup { [Base |-> "BTC"] }

PairEntryLists == UNION { [1..n -> PairEntries] : n \in 0..MaxListed }

\* res.data of GET /api/pairs: with a list, without `data`, or null
PairsDocuments ==
  { [data |-> l] : l \in PairEntryLists } \cup { [message |-> "Internal error"], JsonNull }

PairsOutcomes ==
  { LcxResolved(d) : d \in PairsDocuments } \cup { LcxRejected(e) : e \in AxiosErrors }

UserInputs == {"btc usdt", "btc/usdt", "eth", "xrp", " ", ""}

NoFind == [kind |-> "none", value |-> "", error |-> NoError]

IdleFinder ==
  [pc |-> "idle", userInput |-> "", result |-> NoFind,
   requests |-> 0, response |-> LcxPending, raised |-> <<>>]

\* findExactPair(userInput), up to `await getPairs()`, which awaits its request
FindExactPairStart(userInput) ==
  [IdleFinder EXCEPT !.pc = "awaitPairs", !.userInput = userInput, !.requests = 1]

\* return exactMatch.Symbol / return partialMatch.Symbol
ReturnSymbolStripped(f, sym) ==
  [f EXCEPT !.pc = "done",
            !.result = [kind |-> "symbol", value |-> ReplaceFirst(sym, "/", ""),
                        error |-> NoError]]
ReturnSymbol(f, sym) ==
  [f EXCEPT !.pc = "done", !.result = [kind |-> "symbol", value |-> sym, error |-> NoError]]

\* return null
ReturnNull(f) ==
  [f EXCEPT !.pc = "done", !.result = [kind |-> "null", value |-> "", error |-> NoError]]

\* the catch block of findExactPair: the error is logged and null returned
FindExactPairCatchRethrows(f, e) ==
  [f EXCEPT !.pc = "done", !.raised = Append(@, e),
            !.result = [kind |-> "error", value |-> "", error |-> e]]
FindExactPairCatch(f, e) == ReturnNull([f EXCEPT !.raised = Append(@, e)])

\* pair.Symbol === userInput.toUpperCase() || pair.Symbol === normalizedInput
ExactTestUpperOnly(pair, upper, normalizedInput) ==
  HasKey(pair, "Symbol") /\ pair.Symbol = upper
ExactTest(pair, upper, normalizedInput) ==
  HasKey(pair, "Symbol") /\ (pair.Symbol = upper \/ pair.Symbol = normalizedInput)

\* pair.Symbol.includes(normalizedInput) ||
\* normalizedInput.includes(pair.Symbol.replace('/', '')), which throws on an entry
\* that has no Symbol
PartialTestIgnoresEmpty(pair, normalizedInput) ==
  IF ~HasKey(pair, "Symbol") THEN "throw"
  ELSE IF normalizedInput # ""
            /\ (Includes(pair.Symbol, normalizedInput)
                  \/ Includes(normalizedInput, ReplaceFirst(pair.Symbol, "/", "")))
    THEN "match"
  ELSE "no"
PartialTest(pair, normalizedInput) ==
  IF ~HasKey(pair, "Symbol") THEN "throw"
  ELSE IF Includes(pair.Symbol, normalizedInput)
            \/ Includes(normalizedInput, ReplaceFirst(pair.Symbol, "/", ""))
    THEN "match"
  ELSE "no"

\* Array.prototype.find: the first index of `hits`, 0 if there is none
FirstIndex(hits) == IF hits = {} THEN 0 ELSE CHOOSE i \in hits : \A k \in hits : i <= k

\* the try block of findExactPair after getPairs returned pairsData
MatchPairs(f, pairsData) ==
  LET pairs == IF HasKey(pairsData, "data") THEN pairsData.data ELSE <<>>
      upper == ToUpperCase(f.userInput)
      normalizedInput == StripWhitespace(upper)
      exact == FirstIndex({i \in 1..Len(pairs) : ExactTest(pairs[i], upper, normalizedInput)})
      partial == FirstIndex({i \in 1..Len(pairs) :
                               PartialTest(pairs[i], normalizedInput) # "no"})
  IN IF exact > 0 THEN ReturnSymbol(f, pairs[exact].Symbol)
     ELSE IF partial = 0 THEN ReturnNull(f)
     ELSE IF PartialTest(pairs[partial], normalizedInput) = "throw"
       THEN FindExactPairCatch(f, MkError("TypeError",
              "Cannot read properties of undefined (reading 'includes')", "lcx"))
     ELSE ReturnSymbol(f, pairs[partial].Symbol)

\* the pairs request settled with o: the rest of getPairs, then of findExactPair
PairsSettled(f, o) ==
  LET f1 == [f EXCEPT !.response = o]
  IN IF o.kind = "reject" THEN FindExactPairCatch(f1, o.error)
     \* getPairs logs res.data.data?.length
     ELSE IF o.data = JsonNull THEN FindExactPairCatch(f1, NullReadError("data", "lcx"))
     ELSE MatchPairs(f1, o.data)

(***************************************************************************)
(* The one-call specification: a caller invokes one operation; the         *)
(* providers answer.                                                       *)
(***************************************************************************)
Init == call = IdleCall /\ twin = IdleCall /\ bulk = IdleBulk /\ finder = IdleFinder

\* getBinanceTicker(symbol), getBinanceOrderBook(symbol), getBinanceTrades(symbol)
Invoke ==
  /\ call.pc = "idle"
  /\ \E op \in SymbolOps \ {"klines"}, symbol \in Symbols : call' = Start(op, symbol)
  /\ UNCHANGED <<twin, bulk, finder>>

\* getBinanceKlines(symbol, interval, limit)
InvokeKlines ==
  /\ call.pc = "idle"
  /\ \E symbol \in Symbols, interval \in Intervals, limit \in Limits :
        call' = StartKlines(symbol, interval, limit)
  /\ UNCHANGED <<twin, bulk, finder>>

\* getBinanceExchangeInfo()
InvokeExchangeInfo ==
  /\ call.pc = "idle"
  /\ call' = Start("exchangeInfo", "")
  /\ UNCHANGED <<twin, bulk, finder>>

PrimarySettles ==
  /\ call.pc = "awaitPrimary"
  /\ call.op \in SymbolOps
  /\ \E o \in PrimaryOutcomes(call.op, call.symbol) : call' = TryBlock(call, o)
  /\ UNCHANGED <<twin, bulk, finder>>

ExchangeInfoSettles ==
  /\ call.pc = "awaitPrimary"
  /\ call.op = "exchangeInfo"
  /\ \E o \in PrimaryOutcomes(call.op, call.symbol) : call' = ExchangeInfoTry(call, o)
  /\ UNCHANGED <<twin, bulk, finder>>

FallbackSettles ==
  /\ call.pc = "awaitFallback"
  /\ \E o \in SecondaryOutcomes(call.symbol, call.secondaryRequests) :
        call' = FallbackSettled(call, o)
  /\ UNCHANGED <<twin, bulk, finder>>

Next ==
  \/ Invoke
  \/ InvokeKlines
  \/ InvokeExchangeInfo
  \/ PrimarySettles
  \/ ExchangeInfoSettles
  \/ FallbackSettles

Spec == Init /\ [][Next]_vars

(***************************************************************************)
(* The two-call specification: getBinanceTicker is called twice on the     *)
(* same symbol; the primary provider answers `call` with status 451 and    *)
(* `twin` with a network failure; the secondary provider answers both.     *)
(***************************************************************************)
BlockedOutcomes(op, symbol) ==
  { o \in PrimaryOutcomes(op, symbol) : o.kind = "response" /\ o.status = LegalBlock }

NetworkFailures(op, symbol) ==
  { o \in PrimaryOutcomes(op, symbol) : o.kind = "reject" /\ o.cause = "network" }

InvokePair ==
  /\ call.pc = "idle" /\ twin.pc = "idle"
  /\ \E symbol \in Symbols :
        /\ call' = Start("ticker", symbol)
        /\ twin' = Start("ticker", symbol)
  /\ UNCHANGED <<bulk, finder>>

CallBlocked ==
  /\ call.pc = "awaitPrimary"
  /\ \E o \in BlockedOutcomes(call.op, call.symbol) : call' = TryBlock(call, o)
  /\ UNCHANGED <<twin, bulk, finder>>

TwinNetworkFailure ==
  /\ twin.pc = "awaitPrimary"
  /\ \E o \in NetworkFailures(twin.op, twin.symbol) : twin' = TryBlock(twin, o)
  /\ UNCHANGED <<call, bulk, finder>>

TwinFallbackSettles ==
  /\ twin.pc = "awaitFallback"
  /\ \E o \in SecondaryOutcomes(twin.symbol, twin.secondaryRequests) :
        twin' = FallbackSettled(twin, o)
  /\ UNCHANGED <<call, bulk, finder>>

NextPair ==
  \/ InvokePair
  \/ CallBlocked
  \/ TwinNetworkFailure
  \/ FallbackSettles
  \/ TwinFallbackSettles

SpecPair == Init /\ [][NextPair]_vars

(***************************************************************************)
(* The two-version specification: `call` runs the fallback-capable version *)
(* of an operation and `twin` the plain version of the same operation on   *)
(* the same symbol; the providers answer each of them.                     *)
(***************************************************************************)
InvokeBoth ==
  /\ call.pc = "idle" /\ twin.pc = "idle"
  /\ \E op \in SymbolOps, symbol \in Symbols :
        /\ call' = Start(op, symbol)
        /\ twin' = PlainStart(op, symbol)
  /\ UNCHANGED <<bulk, finder>>

InvokeBothExchangeInfo ==
  /\ call.pc = "idle" /\ twin.pc = "idle"
  /\ call' = Start("exchangeInfo", "")
  /\ twin' = PlainStart("exchangeInfo", "")
  /\ UNCHANGED <<bulk, finder>>

PlainSettles ==
  /\ twin.pc = "awaitPrimary"
  /\ \E o \in PrimaryOutcomes(twin.op, twin.symbol) : twin' = PlainTry(twin, o)
  /\ UNCHANGED <<call, bulk, finder>>

NextVersions ==
  \/ InvokeBoth
  \/ InvokeBothExchangeInfo
  \/ PrimarySettles
  \/ ExchangeInfoSettles
  \/ FallbackSettles
  \/ PlainSettles

SpecVersions == Init /\ [][NextVersions]_vars

(***************************************************************************)
(* The bulk-ticker specification: getTickers is called once on a list of   *)
(* pairs; the exchange answers its ticker requests in any order.           *)
(***************************************************************************)
InvokeGetTickers ==
  /\ bulk.pc = "idle"
  /\ \E pairs \in PairLists : bulk' = GetTickersStart(pairs)
  /\ UNCHANGED <<call, twin, finder>>

TickerSettles ==
  /\ bulk.pc = "awaitAll"
  /\ \E i \in 1..Len(bulk.pairs) :
        /\ bulk.requests[i] > 0
        /\ bulk.outcomes[i] = LcxPending
        /\ \E o \in TickerOutcomes(bulk.pairs[i]) : bulk' = TickerSettled(bulk, i, o)
  /\ UNCHANGED <<call, twin, finder>>

\* Promise.all resolves once every promise of the list is fulfilled
GetTickersResumes ==
  /\ bulk.pc = "awaitAll"
  /\ AllSettled(bulk)
  /\ bulk' = GetTickersResume(bulk)
  /\ UNCHANGED <<call, twin, finder>>

NextTickers ==
  \/ InvokeGetTickers
  \/ TickerSettles
  \/ GetTickersResumes

SpecTickers == Init /\ [][NextTickers]_vars

(***************************************************************************)
(* The pair-discovery specification: findExactPair is called once; the     *)
(* exchange answers the pairs request.                                     *)
(***************************************************************************)
InvokeFindExactPair ==
  /\ finder.pc = "idle"
  /\ \E userInput \in UserInputs : finder' = FindExactPairStart(userInput)
  /\ UNCHANGED <<call, twin, bulk>>

PairsSettles ==
  /\ finder.pc = "awaitPairs"
  /\ \E o \in PairsOutcomes : finder' = PairsSettled(finder, o)
  /\ UNCHANGED <<call, twin, bulk>>

NextFinder ==
  \/ InvokeFindExactPair
  \/ PairsSettles

SpecFinder == Init /\ [][NextFinder]_vars

(***************************************************************************)
(* What the properties speak of.                                           *)
(***************************************************************************)
Done(c) == c.pc = "done"

\* the primary request was answered with a 2xx status and a body that parses
PrimarySucceeded(c) ==
  c.primary.kind = "response" /\ ResponseOk(c.primary) /\ c.primary.body.parses

PrimaryFailed(c) == c.primary.kind # "none" /\ ~PrimarySucceeded(c)

PrimaryBlocked(c) == c.primary.kind = "response" /\ c.primary.status = 451

SecondarySucceeded(o) == o.kind = "response" /\ ResponseOk(o) /\ o.body.parses

\* the secondary answer is one getCoinGeckoFallback makes a ticker of
SecondaryUsable(o) == SecondarySucceeded(o) /\ o.body.json # JsonNull

\* the secondary provider was asked, and no answer of it was usable
FallbackFailed(c) ==
  /\ Len(c.secondary) >= 1
  /\ \A i \in 1..Len(c.secondary) : ~SecondaryUsable(c.secondary[i])

Returned(c, v) == c.result = [kind |-> "value", value |-> v, error |-> NoError]

ThrownByFallback(e) == e.from \in {"fallback1", "fallback2"}

(***************************************************************************)
(* Properties.                                                             *)
(***************************************************************************)

\* C1 (as claimed): for each of the five operations and every symbol, when the primary
\* request answers 2xx with parseable JSON the operation returns exactly that JSON (the
\* same fields, no `source` added) and nothing is asked of the secondary provider.
C1_PrimaryJsonReturnedUnmodified ==
  (Done(call) /\ PrimarySucceeded(call)) =>
     /\ Returned(call, call.primary.body.json)
     /\ DOMAIN call.result.value = DOMAIN call.primary.body.json
     /\ call.secondaryRequests = 0
     /\ call.fallbackCalls = 0

\* What holds of C1's statement: it holds of every operation and every document but
\* getBinanceExchangeInfo answered with the JSON literal null.
PrimaryJsonReturnedUnlessNullExchangeInfo ==
  (Done(call) /\ PrimarySucceeded(call)
     /\ ~(call.op = "exchangeInfo" /\ call.primary.body.json = JsonNull)) =>
     /\ Returned(call, call.primary.body.json)
     /\ call.secondaryRequests = 0
     /\ call.fallbackCalls = 0

\* C2 (as claimed): when the primary request of getBinanceTicker answers 451, exactly
\* one request goes to the secondary provider during the call, whatever that request's
\* outcome, and when it succeeds the returned value carries source
\* 'CoinGecko (Fallback)'.
C2_BlockedTickerSendsOneFallbackRequest ==
  (Done(call) /\ call.op = "ticker" /\ PrimaryBlocked(call)) =>
     /\ call.secondaryRequests = 1
     /\ SecondarySucceeded(call.secondary[1]) =>
           /\ call.result.kind = "value"
           /\ call.result.value.source = "CoinGecko (Fallback)"

\* C3 (as claimed): for the four operations that take a symbol, whenever the primary
\* request fails with a network error or a timeout, whatever the error's message,
\* getCoinGeckoFallback is invoked before the call completes.
C3_PrimaryRejectionInvokesFallback ==
  (Done(call) /\ call.op \in SymbolOps /\ call.primary.kind = "reject") =>
     call.fallbackCalls >= 1

\* C4 (as claimed): after a primary network failure the primary provider is retried up
\* to a configured bound R before the fallback: R + 1 primary requests when all fail.
C4_PrimaryRetriedUpToBound ==
  (Done(call) /\ call.primary.kind = "reject" /\ call.primary.cause = "network") =>
     \E R \in 1..MaxRetryBound : call.primaryRequests = R + 1

\* C4 (amended): the primary provider is never retried: every call sends exactly one
\* request to it, whatever its outcome, and a request goes to the secondary provider
\* only after that one primary request has failed.
C4_OnePrimaryRequestThenFallback ==
  /\ call.pc # "idle" => call.primaryRequests = 1
  /\ call.pc = "awaitPrimary" => call.secondaryRequests = 0 /\ call.fallbackCalls = 0
  /\ call.secondaryRequests > 0 => PrimaryFailed(call)

C4_Witness ==
  /\ Done(call) /\ call.op = "ticker"
  /\ call.primary.kind = "reject" /\ call.primary.cause = "network"
  /\ call.primaryRequests = 1 /\ call.secondaryRequests = 1
  /\ FallbackFailed(call)

\* C5 (as claimed): for getBinanceTicker and getBinanceKlines, whenever the primary
\* request and the fallback request both fail, the call fails with one error of the
\* distinct kind DataUnavailable, not the primary's error nor the fallback's.
C5_BothFailGivesDataUnavailable ==
  (Done(call) /\ call.op \in {"ticker", "klines"} /\ PrimaryFailed(call)
     /\ FallbackFailed(call)) =>
     /\ call.result.kind = "error"
     /\ call.result.error.name = "DataUnavailable"
     /\ \A i \in 1..Len(call.thrown) : call.result.error # call.thrown[i]

\* C5 (amended): for getBinanceTicker and getBinanceKlines, whenever the primary
\* request and every fallback request fail, the call fails with the error that was
\* raised first in the call: the primary request's own error, or, when the primary
\* answered 451, the error of the first fallback request.
C5_BothFailRethrowsFirstError ==
  (Done(call) /\ call.op \in {"ticker", "klines"} /\ PrimaryFailed(call)
     /\ FallbackFailed(call)) =>
     /\ call.result.kind = "error"
     /\ call.result.error = call.thrown[1]
     /\ call.result.error.from = IF PrimaryBlocked(call) THEN "fallback1" ELSE "primary"

C5_Witness ==
  /\ Done(call) /\ call.op = "klines"
  /\ call.primary.kind = "reject"
  /\ FallbackFailed(call)
  /\ call.result.kind = "error" /\ call.result.error.message = "fetch failed"
  /\ call.thrown[2].message = "CoinGecko API error: 500 Internal Server Error"

\* C6 (as claimed): in the four operations that take a symbol, an error thrown by
\* getCoinGeckoFallback is never the error the caller receives, whether the fallback
\* was entered from the 451 branch or from the catch block.
C6_FallbackErrorNeverReachesCaller ==
  (Done(call) /\ call.op \in SymbolOps /\ call.result.kind = "error") =>
     ~ThrownByFallback(call.result.error)

\* C7 (as claimed): when getBinanceExchangeInfo cannot reach the primary provider
\* (status 451, network failure or timeout) it returns the static list, which holds
\* BTCUSDT and ETHUSDT with status TRADING and source 'Fallback (Binance API
\* blocked)'; the 451 branch and the catch block return the same list.
C7_ExchangeInfoUnreachableGivesStaticList ==
  (Done(call) /\ call.op = "exchangeInfo"
     /\ (PrimaryBlocked(call) \/ call.primary.kind = "reject")) =>
     /\ call.result.kind = "value"
     /\ call.result.value = StaticExchangeInfoBlocked
     /\ call.result.value = StaticExchangeInfoCaught
     /\ call.result.value.source = "Fallback (Binance API blocked)"
     /\ \A s \in {"BTCUSDT", "ETHUSDT"} :
           \E i \in 1..Len(call.result.value.symbols) :
              /\ call.result.value.symbols[i].symbol = s
              /\ call.result.value.symbols[i].status = "TRADING"

\* C8 (as claimed): getBinanceExchangeInfo never completes with an error: for every
\* outcome of the primary request it returns the primary JSON or the static list.
C8_ExchangeInfoNeverFails ==
  (Done(call) /\ call.op = "exchangeInfo") =>
     /\ call.result.kind = "value"
     /\ \/ call.result.value = call.primary.body.json
        \/ call.result.value = StaticExchangeInfoBlocked

\* C8 (amended): getBinanceExchangeInfo completes with an error exactly when the
\* primary request raised an error whose message contains neither '451' nor 'fetch'
\* (a status such as 500, an unparseable body, a body of null), and then with that error; in every
\* other case it returns the primary JSON (2xx) or the static list.
C8_ExchangeInfoFailsOnUnmatchedError ==
  (Done(call) /\ call.op = "exchangeInfo") =>
     LET raised == call.thrown # <<>>
         unmatched == /\ raised
                      /\ ~Includes(call.thrown[1].message, "451")
                      /\ ~Includes(call.thrown[1].message, "fetch")
     IN /\ (call.result.kind = "error") = unmatched
        /\ call.result.kind = "error" =>
              /\ call.result.error = call.thrown[1]
              /\ call.result.error.from = "primary"
        /\ call.result.kind = "value" =>
              IF PrimarySucceeded(call)
                THEN call.result.value = call.primary.body.json /\ call.thrown = <<>>
                ELSE call.result.value = StaticExchangeInfoBlocked
        /\ (call.primary.kind = "response" /\ call.primary.status = 500
              /\ call.primary.statusText = "Internal Server Error") =>
              call.result.kind = "error"
        /\ PrimaryBlocked(call) => call.result.kind = "value"
        /\ call.secondaryRequests = 0

C8_Witness ==
  /\ Done(call) /\ call.op = "exchangeInfo"
  /\ call.primary.kind = "response" /\ call.primary.status = 500
  /\ call.result.kind = "error"
  /\ call.result.error.message = "Binance API error: 500 Internal Server Error"

\* two calls were given the same answers by the secondary provider, request by request
SameFallbackOutcomes(c, d) ==
  \A i \in 1..Len(c.secondary) : i <= Len(d.secondary) => c.secondary[i] = d.secondary[i]

\* the same returned value, or failure with the same kind of error
SameOutcome(c, d) ==
  /\ c.result.kind = d.result.kind
  /\ c.result.value = d.result.value
  /\ c.result.error.name = d.result.error.name

\* C9 (as claimed): getBinanceTicker handles a primary status 451 and a primary network
\* error identically: for every outcome of the fallback request both send the same
\* number of fallback requests and end in the same result, and the 451 status itself
\* never reaches the caller as an error.
C9_BlockedHandledLikeNetworkError ==
  (Done(call) /\ Done(twin) /\ PrimaryBlocked(call)
     /\ twin.primary.kind = "reject" /\ twin.primary.cause = "network"
     /\ SameFallbackOutcomes(call, twin)) =>
     /\ call.secondaryRequests = twin.secondaryRequests
     /\ SameOutcome(call, twin)
     /\ call.result.error.from # "primary"

\* C10: when getBinanceOrderBook or getBinanceTrades enters the fallback path it
\* returns the stub (the requested symbol, a message that data of that type is not
\* available via the fallback API, source 'CoinGecko (Fallback)'), sends nothing to
\* the secondary provider and does not fail: a status-451 call always returns a value.
C10_OrderBookTradesFallbackIsStub ==
  (call.op \in {"orderbook", "trades"}) =>
     /\ call.secondaryRequests = 0
     /\ call.pc # "awaitFallback"
     /\ call.fallbackCalls > 0 =>
           /\ Done(call)
           /\ call.fallbackCalls = 1
           /\ Returned(call,
                [symbol |-> call.symbol,
                 message |-> IF call.op = "orderbook"
                               THEN "orderbook data not available via fallback API"
                               ELSE "trades data not available via fallback API",
                 source |-> "CoinGecko (Fallback)"])
     /\ (Done(call) /\ PrimaryBlocked(call)) =>
           call.fallbackCalls = 1 /\ call.result.kind = "value"

C10_Witness ==
  /\ Done(call) /\ call.op = "trades" /\ call.symbol = "ethbusd"
  /\ PrimaryBlocked(call)
  /\ call.fallbackCalls = 1
  /\ call.result.kind = "value"
  /\ call.result.value.message = "trades data not available via fallback API"

\* the returned value was produced by the fallback path: getCoinGeckoFallback was
\* called, or getBinanceExchangeInfo returned one of its static lists
ProducedByFallback(c) ==
  c.fallbackCalls > 0 \/ (c.op = "exchangeInfo" /\ ~PrimarySucceeded(c))

\* the name the fallback path of an operation puts in `source`
SourceOfFallback(op) == IF op = "exchangeInfo" THEN ExchangeInfoSource ELSE FallbackSource

\* C11: for each of the five operations, a returned value carries a `source` field
\* naming the fallback if and only if it was produced by the fallback path; a value
\* of the primary provider is returned as parsed, with no `source` field added.
C11_SourceNamesFallbackIffFallbackPath ==
  (Done(call) /\ call.result.kind = "value") =>
     /\ ProducedByFallback(call) <=>
          (HasKey(call.result.value, "source")
             /\ call.result.value.source = SourceOfFallback(call.op))
     /\ ~ProducedByFallback(call) =>
          /\ PrimarySucceeded(call)
          /\ call.result.value = call.primary.body.json
          /\ ~HasKey(call.result.value, "source")

C11_Witness ==
  /\ Done(call) /\ call.op = "klines"
  /\ call.primary.kind = "reject"
  /\ call.fallbackCalls = 1
  /\ call.result.kind = "value"
  /\ call.result.value.source = "CoinGecko (Fallback)"
  /\ call.result.value.lastPrice = 1

\* s ends with suffix
EndsWith(s, suffix) ==
  Len(suffix) <= Len(s) /\ SubSeq(s, Len(s) - Len(suffix) + 1, Len(s)) = suffix

\* s with one trailing usdt, busd or bnb removed, if it ends with one
WithoutQuoteSuffix(s) ==
  IF EndsWith(s, "usdt") \/ EndsWith(s, "busd") THEN SubSeq(s, 1, Len(s) - 4)
  ELSE IF EndsWith(s, "bnb") THEN SubSeq(s, 1, Len(s) - 3)
  ELSE s

\* C17 (as claimed): the id asked of the secondary provider is the lower-cased symbol
\* with at most one trailing USDT, BUSD or BNB removed: it is a prefix of the
\* lower-cased symbol, and no character that is not at the end is removed.
C17_IdIsLowerCasedSymbolWithoutSuffix ==
  \A i \in 1..Len(call.ids) :
     LET lower == ToLowerCase(call.symbol)
         id == call.ids[i]
     IN /\ Len(id) <= Len(lower) /\ SubSeq(lower, 1, Len(id)) = id
        /\ id = WithoutQuoteSuffix(lower)

\* C18 (as claimed): for ticker, order book, trades and klines, when the primary
\* provider answers with a non-2xx status other than 451, the call fails with an
\* error whose message carries that status code and status text, and no request is
\* sent to the secondary provider, whatever the status text is.
C18_HttpErrorFailsWithoutFallback ==
  (call.op \in SymbolOps /\ call.primary.kind = "response"
     /\ ~ResponseOk(call.primary) /\ call.primary.status # 451) =>
     /\ Done(call)
     /\ call.result.kind = "error"
     /\ call.result.error.message =
          "Binance API error: " \o ToString(call.primary.status) \o " "
             \o call.primary.statusText
     /\ call.secondaryRequests = 0

\* the requests of a call that were sent and have not settled yet
InFlight(c) ==
  (c.primaryRequests - (IF c.primary.kind = "none" THEN 0 ELSE 1))
     + (c.secondaryRequests - Len(c.secondary))

\* the requests of a call that have settled
Settled(c) == (IF c.primary.kind = "none" THEN 0 ELSE 1) + Len(c.secondary)

\* C19: every call of an operation completes with exactly one outcome after boundedly
\* many requests, whatever the input: at most one request goes to the primary
\* provider and at most two to the secondary provider; a call that has not completed
\* waits for exactly one request in flight, every step of a call is the settling of
\* one request (so a call takes at most three steps once every request settles), a
\* completed call has nothing in flight, and its outcome (a value or an error) is
\* never replaced.
C19_CallCompletesAfterBoundedRequests ==
  /\ [](/\ call.primaryRequests <= 1
        /\ call.secondaryRequests <= 2
        /\ Done(call) <=> call.result.kind \in {"value", "error"}
        /\ call.pc \in {"awaitPrimary", "awaitFallback"} => InFlight(call) = 1
        /\ Done(call) => InFlight(call) = 0)
  /\ [][/\ call.pc # "idle" => Settled(call') = Settled(call) + 1
        /\ call.result.kind # "none" => call'.result = call.result]_vars

C19_Witness ==
  /\ Done(call) /\ call.op = "ticker"
  /\ call.primaryRequests = 1
  /\ call.secondaryRequests = 2
  /\ Settled(call) = 3
  /\ call.result.kind = "error"

\* the ticker request of position i of a getTickers call succeeded, failed
TickerSucceeded(b, i) == b.outcomes[i].kind = "resolve"
TickerFailed(b, i) == b.outcomes[i].kind = "reject"

\* the object getTickers returned, and its lists
Summary(b) == b.result.value.data
Successful(b) == b.result.value.data.successful
Failed(b) == b.result.value.data.failed

\* the number of positions of a list at which pair p stands with property P
Standing(list, p, P(_)) ==
  Cardinality({i \in 1..Len(list) : list[i].pair = p /\ P(i)})

\* C12: for every input list, empty lists and repeated pairs included, and every
\* combination of per-pair outcomes, the object getTickers returns has total equal to
\* the length of the list and successfulCount + failedCount = total, and every input
\* position appears in exactly one of `successful` and `failed`: in `successful`
\* exactly when its getTicker call succeeded.
C12_TickersPartitionInput ==
  bulk.pc = "done" =>
    LET n == Len(bulk.pairs)
        Entry(k) == TRUE
        Succeeded(i) == TickerSucceeded(bulk, i)
        Rejected(i) == TickerFailed(bulk, i)
        Inputs == [i \in 1..n |-> [pair |-> bulk.pairs[i]]]
    IN /\ bulk.result.kind = "value"
       /\ Summary(bulk).total = n
       /\ Summary(bulk).successfulCount = Len(Successful(bulk))
       /\ Summary(bulk).failedCount = Len(Failed(bulk))
       /\ Summary(bulk).successfulCount + Summary(bulk).failedCount = n
       /\ \A k \in 1..Len(Successful(bulk)) : Successful(bulk)[k].success
       /\ \A k \in 1..Len(Failed(bulk)) : ~Failed(bulk)[k].success
       /\ \A p \in PairNames :
            /\ Standing(Successful(bulk), p, Entry) = Standing(Inputs, p, Succeeded)
            /\ Standing(Failed(bulk), p, Entry) = Standing(Inputs, p, Rejected)

C12_Witness ==
  /\ bulk.pc = "done"
  /\ bulk.pairs = <<"BTC/USDC", "NOPE/XYZ", "BTC/USDC">>
  /\ TickerSucceeded(bulk, 1) /\ TickerFailed(bulk, 2) /\ TickerFailed(bulk, 3)
  /\ Summary(bulk).total = 3
  /\ Summary(bulk).successfulCount = 1
  /\ Summary(bulk).failedCount = 2

\* C13: getTickers never fails because the request of a pair failed: for every
\* subset of failing pairs, all of them included, it returns success = true; each
\* failing pair has an entry in `failed` with the pair's name and the message of its
\* error, and each succeeding pair has its entry in `successful` with the data its
\* request returned.
C13_TickersSurvivePairFailures ==
  /\ bulk.result.kind # "error"
  /\ bulk.pc = "done" =>
       /\ bulk.result.kind = "value"
       /\ bulk.result.value.success = TRUE
       /\ \A i \in 1..Len(bulk.pairs) :
            /\ TickerFailed(bulk, i) =>
                 \E k \in 1..Len(Failed(bulk)) :
                    Failed(bulk)[k] = [pair |-> bulk.pairs[i], success |-> FALSE,
                                       error |-> bulk.outcomes[i].error.message]
            /\ TickerSucceeded(bulk, i) =>
                 \E k \in 1..Len(Successful(bulk)) :
                    Successful(bulk)[k] = [pair |-> bulk.pairs[i], success |-> TRUE,
                                           data |-> bulk.outcomes[i].data]

C13_Witness ==
  /\ bulk.pc = "done"
  /\ Len(bulk.pairs) = 3
  /\ \A i \in 1..3 : TickerFailed(bulk, i)
  /\ bulk.result.value.success = TRUE
  /\ Summary(bulk).failedCount = 3
  /\ Failed(bulk)[1].error = "Network Error"

\* C14: getTickers sends exactly one ticker request for each element of the list,
\* all of them before it awaits any (so they are in flight together and settle in
\* any order), sends none later, and returns only after every one of them has
\* settled.
C14_OneRequestPerPairAllSettled ==
  /\ [](bulk.pc # "idle" =>
          /\ Len(bulk.requests) = Len(bulk.pairs)
          /\ \A i \in 1..Len(bulk.pairs) : bulk.requests[i] = 1)
  /\ [](bulk.pc = "done" =>
          \A i \in 1..Len(bulk.pairs) : bulk.outcomes[i].kind \in {"resolve", "reject"})
  /\ [][bulk.pc # "idle" => bulk'.requests = bulk.requests]_vars

C14_Witness ==
  /\ bulk.pc = "done"
  /\ bulk.requests = <<1, 1, 1>>
  /\ bulk.order = <<3, 1, 2>>

\* the entry of input position i, made of the pair and of what its request settled with
EntryOf(b, i) ==
  IF TickerSucceeded(b, i)
    THEN [pair |-> b.pairs[i], success |-> TRUE, data |-> b.outcomes[i].data]
    ELSE [pair |-> b.pairs[i], success |-> FALSE, error |-> b.outcomes[i].error.message]

\* `list` holds the entries of the input positions with property P, in input order
InInputOrder(list, b, P(_)) ==
  /\ Len(list) = Cardinality({i \in 1..Len(b.pairs) : P(i)})
  /\ \A k \in 1..Len(list) :
       \E i \in 1..Len(b.pairs) :
          /\ P(i)
          /\ Cardinality({j \in 1..i : P(j)}) = k
          /\ list[k] = EntryOf(b, i)

\* C21: `successful` and `failed` keep their entries in the relative order of the
\* input list, whatever the order in which the requests settled: the returned lists
\* are determined by the input and the per-pair outcomes alone, so two executions
\* with the same input and outcomes return equal results.
C21_TickersKeepInputOrder ==
  bulk.pc = "done" =>
    LET Succeeded(i) == TickerSucceeded(bulk, i)
        Rejected(i) == TickerFailed(bulk, i)
    IN /\ Len(bulk.order) = Len(bulk.pairs)
       /\ InInputOrder(Successful(bulk), bulk, Succeeded)
       /\ InInputOrder(Failed(bulk), bulk, Rejected)

C21_Witness ==
  /\ bulk.pc = "done"
  /\ bulk.pairs = <<"NOPE/XYZ", "BTC/USDC", "BTC/USDC">>
  /\ bulk.order = <<3, 2, 1>>
  /\ TickerFailed(bulk, 1) /\ TickerSucceeded(bulk, 2) /\ TickerSucceeded(bulk, 3)
  /\ bulk.outcomes[2].data.data.lastPrice = 1
  /\ bulk.outcomes[3].data.data.lastPrice = 2
  /\ Successful(bulk)[1].data.data.lastPrice = 1
  /\ Successful(bulk)[2].data.data.lastPrice = 2

\* the pairs list a call of findExactPair was answered with: res.data.data
ListedPairs(f) ==
  IF f.response.kind = "resolve" /\ HasKey(f.response.data, "data")
    THEN f.response.data.data ELSE <<>>

\* some entry of the list has this Symbol
Lists(f, sym) ==
  \E i \in 1..Len(ListedPairs(f)) :
     HasKey(ListedPairs(f)[i], "Symbol") /\ ListedPairs(f)[i].Symbol = sym

\* C15 (as claimed): findExactPair("btc usdt") normalizes its input to "BTCUSDT", and
\* for every pairs list that holds a pair with Symbol "BTC/USDT" or "BTCUSDT" it
\* returns that pair's Symbol, whatever other pairs the list holds and in whatever
\* order.
C15_BtcUsdtFoundWhenListed ==
  /\ StripWhitespace(ToUpperCase("btc usdt")) = "BTCUSDT"
  /\ (finder.pc = "done" /\ finder.userInput = "btc usdt"
        /\ (Lists(finder, "BTC/USDT") \/ Lists(finder, "BTCUSDT"))) =>
        /\ finder.result.kind = "symbol"
        /\ finder.result.value \in {"BTC/USDT", "BTCUSDT"}
        /\ Lists(finder, finder.result.value)

\* the upper-cased input of a call of findExactPair, and the same without whitespace
UpperInput(f) == ToUpperCase(f.userInput)
NormalizedInput(f) == StripWhitespace(ToUpperCase(f.userInput))

HasSymbol(f, i) == HasKey(ListedPairs(f)[i], "Symbol")

\* entry i of the list matches the input exactly
ExactAt(f, i) ==
  HasSymbol(f, i) /\ ListedPairs(f)[i].Symbol \in {UpperInput(f), NormalizedInput(f)}

\* entry i of the list matches the input partially
PartialAt(f, i) ==
  /\ HasSymbol(f, i)
  /\ \/ Includes(ListedPairs(f)[i].Symbol, NormalizedInput(f))
     \/ Includes(NormalizedInput(f), ReplaceFirst(ListedPairs(f)[i].Symbol, "/", ""))

\* i is the first position of the list with property P
IsFirst(i, P(_)) == P(i) /\ \A k \in 1..(i - 1) : ~P(k)

\* findExactPair was answered with a pairs document and has returned
Matched(f) == f.pc = "done" /\ f.response.kind = "resolve" /\ f.response.data # JsonNull

\* C16 (as claimed): for every input and every pairs list, a pair whose Symbol equals
\* the upper-cased input or the upper-cased input without whitespace is returned,
\* even when a pair that only partially matches stands earlier; otherwise the first
\* pair in list order that partially matches is returned; otherwise null.
C16_ExactThenFirstPartialThenNull ==
  Matched(finder) =>
    LET n == Len(ListedPairs(finder))
        PartialHere(i) == PartialAt(finder, i)
    IN IF \E i \in 1..n : ExactAt(finder, i)
         THEN /\ finder.result.kind = "symbol"
              /\ finder.result.value \in {UpperInput(finder), NormalizedInput(finder)}
       ELSE IF \E i \in 1..n : PartialAt(finder, i)
         THEN /\ finder.result.kind = "symbol"
              /\ \E i \in 1..n : /\ IsFirst(i, PartialHere)
                                 /\ finder.result.value = ListedPairs(finder)[i].Symbol
       ELSE finder.result.kind = "null"

\* C16 (corrected): an exact match is returned even when a pair that only partially
\* matches, or an entry without a Symbol, stands earlier; otherwise the list is
\* scanned in order up to the first entry that partially matches or has no Symbol:
\* the Symbol of a partial match is returned, and null when the scan ends at an entry
\* without a Symbol or finds nothing.
C16_ExactThenScanToPartialOrMalformed ==
  Matched(finder) =>
    LET n == Len(ListedPairs(finder))
        Stops(i) == PartialAt(finder, i) \/ ~HasSymbol(finder, i)
    IN IF \E i \in 1..n : ExactAt(finder, i)
         THEN /\ finder.result.kind = "symbol"
              /\ finder.result.value \in {UpperInput(finder), NormalizedInput(finder)}
       ELSE IF \E i \in 1..n : IsFirst(i, Stops) /\ HasSymbol(finder, i)
         THEN /\ finder.result.kind = "symbol"
              /\ \E i \in 1..n : /\ IsFirst(i, Stops)
                                 /\ finder.result.value = ListedPairs(finder)[i].Symbol
       ELSE finder.result.kind = "null"

C16_Witness ==
  /\ finder.pc = "done" /\ finder.userInput = "btc usdt"
  /\ ListedPairs(finder) = <<[Symbol |-> "BTC/USD"], [Symbol |-> "BTCUSDT"]>>
  /\ finder.result.kind = "symbol"
  /\ finder.result.value = "BTCUSDT"

\* C20: findExactPair never throws: a call ends with a Symbol or with null; it ends
\* with null when the pairs request fails, when an exception is raised inside the call
\* (reading the answer, or matching an entry without a Symbol), and when the answer
\* has no `data` field, which is taken for an empty list.
C20_FindExactPairNeverThrows ==
  finder.pc = "done" =>
    /\ finder.result.kind \in {"symbol", "null"}
    /\ finder.response.kind = "reject" => finder.result.kind = "null"
    /\ Len(finder.raised) > 0 => finder.result.kind = "null"
    /\ (finder.response.kind = "resolve" /\ ~HasKey(finder.response.data, "data")) =>
          /\ ListedPairs(finder) = <<>>
          /\ finder.result.kind = "null"

C20_Witness ==
  /\ finder.pc = "done" /\ finder.userInput = "eth"
  /\ ListedPairs(finder) = <<[Symbol |-> "BTC/USD"], [Base |-> "BTC"], [Symbol |-> "ETH/BTC"]>>
  /\ Len(finder.raised) = 1
  /\ finder.raised[1].name = "TypeError"
  /\ finder.result.kind = "null"

\* C22: when getBinanceKlines enters the fallback path it calls getCoinGeckoFallback
\* with type 'ticker': it asks the secondary provider, and what it returns is the
\* value getBinanceTicker's fallback returns for the same symbol and the same
\* secondary response, a ticker tagged source 'CoinGecko (Fallback)', whatever the
\* interval and limit arguments are.
C22_KlinesFallbackIsTickerFallback ==
  /\ (call.op = "klines" /\ call.fallbackCalls > 0) =>
        call.secondaryRequests = call.fallbackCalls
  /\ (Done(call) /\ call.op \in {"klines", "ticker"}
        /\ call.fallbackCalls > 0 /\ call.result.kind = "value") =>
        LET last == call.secondary[Len(call.secondary)]
        IN /\ call.result.value = TransformTicker(call.symbol, last.body.json)
           /\ call.result.value.source = "CoinGecko (Fallback)"
           /\ HasKey(call.result.value, "lastPrice")

C22_Witness ==
  /\ Done(call) /\ call.op = "klines"
  /\ call.interval = "1h" /\ call.limit = 5
  /\ PrimaryBlocked(call)
  /\ call.fallbackCalls = 1
  /\ call.result.kind = "value"
  /\ call.result.value.lastPrice = 2
  /\ call.result.value.source = "CoinGecko (Fallback)"

\* the fields of the returned ticker that are taken from the entry's usd price
PriceFields ==
  {"lastPrice", "openPrice", "highPrice", "lowPrice", "prevClosePrice", "weightedAvgPrice"}

\* field `field` of the entry of `id` in the secondary document, 0 when it is missing
EntryField(doc, id, field) ==
  IF ~HasKey(doc, id) THEN 0
  ELSE IF ~HasKey(doc[id], field) THEN 0
  ELSE doc[id][field]

C23_PartialEntryWitness ==
  /\ Done(call) /\ call.op = "ticker" /\ call.symbol = "ethbusd"
  /\ Len(call.secondary) = 1
  /\ call.secondary[1].body.json = ("eth" :> [usd |-> 2])
  /\ call.result.kind = "value"
  /\ call.result.value.highPrice = 2
  /\ call.result.value.priceChange = 0

\* C24: for every input and every pairs list, what findExactPair returns is null or
\* the Symbol of an entry of the list that matches the input, exactly as listed: not
\* the normalized input and not a Symbol with its '/' removed, unless that string is
\* itself listed.
C24_ReturnsNullOrListedSymbol ==
  finder.pc = "done" =>
    \/ finder.result.kind = "null"
    \/ /\ finder.result.kind = "symbol"
       /\ \E i \in 1..Len(ListedPairs(finder)) :
            /\ ExactAt(finder, i) \/ PartialAt(finder, i)
            /\ finder.result.value = ListedPairs(finder)[i].Symbol

C24_Witness ==
  /\ finder.pc = "done" /\ finder.userInput = "btc usdt"
  /\ ListedPairs(finder) = <<[Symbol |-> "ETH/BTC"], [Symbol |-> "BTC/USDT"]>>
  /\ finder.result.kind = "symbol"
  /\ finder.result.value = "BTC/USDT"
  /\ finder.result.value # NormalizedInput(finder)

\* no entry of the list has the empty string, or the upper-cased input, as Symbol
NoBlankSymbol(f) ==
  \A i \in 1..Len(ListedPairs(f)) :
     HasSymbol(f, i) => ListedPairs(f)[i].Symbol \notin {"", UpperInput(f)}

\* C25 (as claimed): for an input that normalizes to the empty string and a non-empty
\* pairs list in which no Symbol is the empty string, findExactPair returns the Symbol
\* of the first pair of the list; it returns null only when the list is empty.
C25_BlankInputReturnsFirstPair ==
  (Matched(finder) /\ NormalizedInput(finder) = "" /\ NoBlankSymbol(finder)) =>
     IF Len(ListedPairs(finder)) = 0
       THEN finder.result.kind = "null"
     ELSE /\ finder.result.kind = "symbol"
          /\ HasSymbol(finder, 1)
          /\ finder.result.value = ListedPairs(finder)[1].Symbol

\* C25 (corrected): for such an input and list, findExactPair returns the Symbol of
\* the first entry when that entry has a Symbol, and null when the list is empty or
\* its first entry has no Symbol.
C25_BlankInputReturnsFirstPairIfWellFormed ==
  (Matched(finder) /\ NormalizedInput(finder) = "" /\ NoBlankSymbol(finder)) =>
     IF Len(ListedPairs(finder)) = 0 THEN finder.result.kind = "null"
     ELSE IF ~HasSymbol(finder, 1)
       THEN finder.result.kind = "null" /\ Len(finder.raised) = 1
     ELSE /\ finder.result.kind = "symbol"
          /\ finder.result.value = ListedPairs(finder)[1].Symbol
          /\ ~ExactAt(finder, 1)

C25_Witness ==
  /\ finder.pc = "done" /\ finder.userInput = " "
  /\ ListedPairs(finder) = <<[Symbol |-> "ETH/BTC"], [Symbol |-> "BTC/USDT"]>>
  /\ finder.result.kind = "symbol"
  /\ finder.result.value = "ETH/BTC"

\* the error a primary outcome makes the try block raise, NoError if it raises none
RaisedByPrimary(c) == IF Len(c.thrown) >= 1 THEN c.thrown[1] ELSE NoError

\* the primary outcomes on which the two versions are claimed to agree: a 2xx
\* response, a non-2xx response other than 451, or a rejection whose message holds
\* neither '451' nor 'fetch'
AgreedOutcome(o) ==
  \/ o.kind = "response" /\ o.status # 451
  \/ o.kind = "reject" /\ ~Includes(o.error.message, "451")
        /\ ~Includes(o.error.message, "fetch")

\* C26 (as claimed): the fallback-capable version of each operation refines the plain
\* version: given the same primary outcome, a 2xx response, a non-2xx response other
\* than 451, or an error whose message holds neither '451' nor 'fetch', both send one
\* primary request and no secondary request and end in the same result.
C26_FallbackVersionRefinesPlain ==
  (Done(call) /\ Done(twin) /\ call.primary = twin.primary
     /\ AgreedOutcome(call.primary)) =>
     /\ call.primaryRequests = 1 /\ twin.primaryRequests = 1
     /\ call.secondaryRequests = 0 /\ twin.secondaryRequests = 0
     /\ call.fallbackCalls = 0
     /\ call.result = twin.result

\* the same restricted to the outcomes whose error message, the message the version
\* builds from the status line included, holds neither '451' nor 'fetch'
VersionsAgreeUnlessMessageMatches ==
  (Done(call) /\ Done(twin) /\ call.primary = twin.primary
     /\ (call.primary.kind = "response" => call.primary.status # 451)
     /\ ~Includes(RaisedByPrimary(twin).message, "451")
     /\ ~Includes(RaisedByPrimary(twin).message, "fetch")) =>
     /\ call.primaryRequests = 1 /\ twin.primaryRequests = 1
     /\ call.secondaryRequests = 0
     /\ call.fallbackCalls = 0
     /\ call.result = twin.result

====
